---------------------------- MODULE Spec2Model ----------------------------
(***************************************************************************)
(* Model of seisbench/util/trace_ops.py: four stateless helpers            *)
(*   trace_has_spikes, stream_to_array, rotate_stream_to_ZNE and           *)
(*   waveform_id_to_network_station_location.                              *)
(*                                                                         *)
(* A behaviour is one call: Init draws the function and its arguments,     *)
(* the function's action runs the whole body and leaves the outcome in     *)
(* `result`.                                                               *)
(*                                                                         *)
(* Representation                                                          *)
(*  - a Python str is a sequence of one-character strings;                 *)
(*  - a time stamp is an integer number of clock ticks, TicksPerSecond     *)
(*    ticks to the second (UTCDateTime keeps time stamps at a fixed        *)
(*    resolution); a sampling rate is a whole number of samples per        *)
(*    second; a difference of time stamps times a rate is the rational     *)
(*    ticks * rate / TicksPerSecond, computed exactly;                     *)
(*  - a fraction is a record [num, den] with den > 0;                      *)
(*  - sample values are integers.                                          *)
(***************************************************************************)
EXTENDS Integers, Sequences, FiniteSets, TLC

VARIABLES
    fn,      \* the function being called
    args,    \* its arguments, as the caller passed them
    pc,      \* "call" before the body ran, "returned" or "raised" after
    result   \* what the call produced (return value, log, mutated argument)

vars == <<fn, args, pc, result>>

----------------------------------------------------------------------------
(* Bounds of the model *)

MaxLen == 5            \* longest waveform id, in characters
MaxTraces == 3         \* most traces in a stream
MaxNpts == 2           \* most samples in a trace
MaxCols == 3           \* most samples per row handed to trace_has_spikes

----------------------------------------------------------------------------
(* Generic helpers *)

Min(a, b) == IF a <= b THEN a ELSE b

Max(a, b) == IF a >= b THEN a ELSE b

Abs(x) == IF x < 0 THEN -x ELSE x

RECURSIVE SumSeq(_)
SumSeq(s) == IF Len(s) = 0 THEN 0 ELSE Head(s) + SumSeq(Tail(s))

SeqsUpTo(S, n) == UNION {[1..k -> S] : k \in 0..n}

----------------------------------------------------------------------------
(* waveform_id_to_network_station_location                                 *)

IdChars == {"N", "."}

\* str.split("."): the maximal dot-free pieces, empty ones included
RECURSIVE Split(_)
Split(s) ==
    IF \A i \in 1..Len(s) : s[i] # "."
    THEN <<s>>
    ELSE LET i == CHOOSE k \in 1..Len(s) :
                      s[k] = "." /\ \A j \in 1..(k-1) : s[j] # "."
         IN  <<SubSeq(s, 1, i-1)>> \o Split(SubSeq(s, i+1, Len(s)))

\* ".".join(parts)
RECURSIVE Join(_)
Join(parts) ==
    IF Len(parts) = 0 THEN <<>>
    ELSE IF Len(parts) = 1 THEN parts[1]
    ELSE parts[1] \o <<".">> \o Join(Tail(parts))

\* Faulty variant: the part count of line 104 off by one.
mut_id_wrong_count(waveform_id) ==
    LET parts == Split(waveform_id)
    IN  IF Len(parts) # 3
        THEN waveform_id
        ELSE Join(SubSeq(parts, 1, Len(parts) - 1))

waveform_id_to_network_station_location(waveform_id) ==
    LET parts == Split(waveform_id)
    IN  IF Len(parts) # 4
        THEN waveform_id
        ELSE Join(SubSeq(parts, 1, Len(parts) - 1))

WaveformIds == SeqsUpTo(IdChars, MaxLen)

InitNormalize ==
    /\ fn = "waveform_id_to_network_station_location"
    /\ args \in {[waveform_id |-> s] : s \in WaveformIds}

Normalize ==
    /\ pc = "call"
    /\ fn = "waveform_id_to_network_station_location"
    /\ result' = [value |->
                    waveform_id_to_network_station_location(args.waveform_id)]
    /\ pc' = "returned"
    /\ UNCHANGED <<fn, args>>

----------------------------------------------------------------------------
(* stream_to_array                                                         *)
(*                                                                         *)
(* A trace is a record [channel, starttime, npts, sampling_rate, data]:    *)
(* the channel code, the time stamp of the first sample in ticks, the      *)
(* sample count, the rate in samples per second and the sample buffer.     *)

Channels == {<<"H", "H", "Z">>, <<"B", "H", "Z">>, <<"H", "H", "N">>}

\* Time stamps are compared at microsecond resolution.
TicksPerSecond == 1000000

\* first-sample times, in ticks: one 100 Hz sample period apart
StartTimes == {0, 10000}

\* samples per second: 100 Hz has a period of a whole number of ticks,
\* 3 Hz has not
SamplingRates == {100, 3}

ComponentOrders == {<<"Z">>, <<"Z", "N">>, <<"N", "Z">>}

\* int(round(a / b)) for a >= 0, b > 0: Python 3 rounds halves to even
RoundDiv(a, b) ==
    LET q == a \div b
        r == a % b
    IN  IF 2 * r < b THEN q
        ELSE IF 2 * r > b THEN q + 1
        ELSE IF q % 2 = 0 THEN q ELSE q + 1

\* int(x) of the rational a / b, b > 0: truncation towards zero
IntDiv(a, b) == IF a >= 0 THEN a \div b ELSE -((-a) \div b)

\* trace.stats.endtime: starttime + (npts - 1) / sampling_rate, stored as a
\* time stamp, that is rounded to the nearest tick
EndTime(trace) ==
    trace.starttime
        + RoundDiv((trace.npts - 1) * TicksPerSecond, trace.sampling_rate)

\* trace.id
TraceId(trace) == <<"NW", "STA", "", trace.channel>>

RECURSIVE MinOver(_)
MinOver(s) == IF Len(s) = 1 THEN s[1] ELSE Min(s[1], MinOver(Tail(s)))

RECURSIVE MaxOver(_)
MaxOver(s) == IF Len(s) = 1 THEN s[1] ELSE Max(s[1], MaxOver(Tail(s)))

\* line 36
StreamStart(stream) ==
    MinOver([k \in 1..Len(stream) |-> stream[k].starttime])

\* line 37
StreamEnd(stream) ==
    MaxOver([k \in 1..Len(stream) |-> EndTime(stream[k])])

\* line 40: samples = int((endtime - starttime) * sampling_rate) + 1
Samples(stream) ==
    IntDiv((StreamEnd(stream) - StreamStart(stream))
               * stream[1].sampling_rate, TicksPerSecond) + 1

\* stream.select(channel="??c"): two arbitrary characters, then c
Select(stream, c) ==
    LET Matches(trace) == Len(trace.channel) = 3 /\ trace.channel[3] = c
    IN  SelectSeq(stream, Matches)

\* sorted(c_stream, key=npts): ascending and stable
RECURSIVE InsertByNpts(_, _)
InsertByNpts(sorted, trace) ==
    IF Len(sorted) = 0 THEN <<trace>>
    ELSE IF sorted[Len(sorted)].npts <= trace.npts
         THEN Append(sorted, trace)
         ELSE Append(InsertByNpts(SubSeq(sorted, 1, Len(sorted) - 1), trace),
                     sorted[Len(sorted)])

RECURSIVE SortByNpts(_)
SortByNpts(s) ==
    IF Len(s) = 0 THEN <<>>
    ELSE InsertByNpts(SortByNpts(SubSeq(s, 1, Len(s) - 1)), s[Len(s)])

\* Faulty variant: the traces are written in stream order (line 51 left out).
mut_no_sort(c_stream) == c_stream

\* lines 46-51: the order in which the traces of one component are written
WriteOrder(c_stream) ==
    IF Len(c_stream) > 1 THEN SortByNpts(c_stream) ELSE c_stream

\* Faulty variant: the warning is formatted after the sort of line 51, so it
\* names the shortest trace.
mut_warn_sorted_first(stream, c_stream) ==
    IF Len(c_stream) > 1
    THEN <<[id |-> TraceId(SortByNpts(c_stream)[1]),
            starttime |-> stream[1].starttime]>>
    ELSE <<>>

\* lines 46-50: the warning logged for one component, if any
Warnings(stream, c_stream) ==
    IF Len(c_stream) > 1
    THEN <<[id |-> TraceId(c_stream[1]), starttime |-> stream[1].starttime]>>
    ELSE <<>>

\* line 55
StartSample(trace, starttime, sampling_rate) ==
    IntDiv((trace.starttime - starttime) * sampling_rate, TicksPerSecond)

\* line 56
CopyLen(trace, samples, start_sample) ==
    Min(Len(trace.data), samples - start_sample)

\* line 57: data[c_idx, start_sample : start_sample + l] = trace.data[:l];
\* rows are indexed from 1 here, so output position p is row[p + 1]
WriteTrace(row, trace, start_sample, l) ==
    [p \in 1..Len(row) |->
        IF start_sample < p /\ p <= start_sample + l
        THEN trace.data[p - start_sample]
        ELSE row[p]]

\* lines 53-58: the inner loop over the traces of one component, started from
\* `acc` = [row, c_completeness, copies]
RECURSIVE FillRow(_, _, _, _, _)
FillRow(acc, traces, starttime, sampling_rate, samples) ==
    IF Len(traces) = 0 THEN acc
    ELSE LET trace == Head(traces)
             start_sample == StartSample(trace, starttime, sampling_rate)
             l == CopyLen(trace, samples, start_sample)
         IN  FillRow([row |-> WriteTrace(acc.row, trace, start_sample, l),
                      c_completeness |-> acc.c_completeness + l,
                      copies |-> Append(acc.copies,
                                        [trace |-> trace,
                                         start_sample |-> start_sample,
                                         l |-> l])],
                     Tail(traces), starttime, sampling_rate, samples)

\* Faulty variants: line 60 without its cap, and with max for min.
mut_no_cap(c_completeness, samples) == c_completeness

mut_cap_max(c_completeness, samples) == Max(samples, c_completeness)

\* line 60: min(1.0, c_completeness / samples), as a count out of `samples`
CappedCount(c_completeness, samples) == Min(samples, c_completeness)

\* line 62: data -= np.mean(data, axis=1, keepdims=True); the entries are kept
\* as numerators over the common denominator Len(row)
SubtractMean(row) == [p \in 1..Len(row) |-> Len(row) * row[p] - SumSeq(row)]

\* lines 36-65
stream_to_array(stream, component_order) ==
    LET starttime == StreamStart(stream)
        sampling_rate == stream[1].sampling_rate
        samples == Samples(stream)
        zeros == [p \in 1..samples |-> 0]
        comp == [c_idx \in 1..Len(component_order) |->
                   LET c_stream == Select(stream, component_order[c_idx])
                       filled == FillRow([row |-> zeros, c_completeness |-> 0,
                                          copies |-> <<>>],
                                         WriteOrder(c_stream), starttime,
                                         sampling_rate, samples)
                   IN  [warnings |-> Warnings(stream, c_stream),
                        row |-> filled.row,
                        copies |-> filled.copies,
                        capped |-> CappedCount(filled.c_completeness,
                                               samples)]]
    IN  [starttime |-> starttime,
         samples |-> samples,
         filled |-> [c_idx \in 1..Len(component_order) |-> comp[c_idx].row],
         data |-> [c_idx \in 1..Len(component_order) |->
                      SubtractMean(comp[c_idx].row)],
         copies |-> [c_idx \in 1..Len(component_order) |->
                        comp[c_idx].copies],
         completeness |->
             [num |-> SumSeq([c_idx \in 1..Len(component_order) |->
                                 comp[c_idx].capped]),
              den |-> samples * Len(component_order)],
         warnings |-> [c_idx \in 1..Len(component_order) |->
                          comp[c_idx].warnings]]

\* The sample buffers of a stream are pairwise distinct, so that the trace a
\* sample of the output came from can be told from its value.
SampleValue(k, j) == 10 * k + j

TraceHeaders(rate) ==
    [channel : Channels, starttime : StartTimes, npts : 1..MaxNpts,
     sampling_rate : {rate}]

WithData(headers) ==
    [k \in 1..Len(headers) |->
        [channel |-> headers[k].channel,
         starttime |-> headers[k].starttime,
         npts |-> headers[k].npts,
         sampling_rate |-> headers[k].sampling_rate,
         data |-> [j \in 1..headers[k].npts |-> SampleValue(k, j)]]]

\* Non-empty streams whose traces share one sampling rate (the documented
\* precondition of stream_to_array)
InitAssemble ==
    /\ fn = "stream_to_array"
    /\ \E rate \in SamplingRates, n \in 1..MaxTraces :
           \E headers \in [1..n -> TraceHeaders(rate)] :
               \E component_order \in ComponentOrders :
                   args = [stream |-> WithData(headers),
                           component_order |-> component_order]

Assemble ==
    /\ pc = "call"
    /\ fn = "stream_to_array"
    /\ result' = stream_to_array(args.stream, args.component_order)
    /\ pc' = "returned"
    /\ UNCHANGED <<fn, args>>

----------------------------------------------------------------------------
(* trace_has_spikes                                                        *)
(*                                                                         *)
(* data is a sequence of rows of equal length, factor a positive integer,  *)
(* quantile a fraction [num, den] in [0, 1].                               *)

Rows == {1, 2}

Amplitudes == {-2, 0, 1}

Factors == {1, 2}

Quantiles == {[num |-> 1, den |-> 4], [num |-> 1, den |-> 2],
              [num |-> 39, den |-> 40]}

RECURSIVE InsertSorted(_, _)
InsertSorted(sorted, x) ==
    IF Len(sorted) = 0 THEN <<x>>
    ELSE IF sorted[Len(sorted)] <= x
         THEN Append(sorted, x)
         ELSE Append(InsertSorted(SubSeq(sorted, 1, Len(sorted) - 1), x),
                     sorted[Len(sorted)])

RECURSIVE Sorted(_)
Sorted(s) ==
    IF Len(s) = 0 THEN <<>>
    ELSE InsertSorted(Sorted(SubSeq(s, 1, Len(s) - 1)), s[Len(s)])

\* np.quantile(row, quantile) with the default linear interpolation between
\* the two order statistics around position (n - 1) * quantile, times
\* quantile.den
QuantileTimesDen(row, quantile) ==
    LET a == Sorted(row)
        n == Len(row)
        h == (n - 1) * quantile.num          \* position, times quantile.den
        lo == h \div quantile.den            \* 0-based
    IN  IF lo >= n - 1
        THEN quantile.den * a[n]
        ELSE quantile.den * a[lo + 1]
                 + (h - lo * quantile.den) * (a[lo + 2] - a[lo + 1])

\* np.abs(data)
AbsData(data) ==
    [r \in 1..Len(data) |-> [j \in 1..Len(data[r]) |-> Abs(data[r][j])]]

\* Faulty variant: the magnitude of a sample is compared, not its signed value.
mut_spikes_abs(data, factor, quantile) ==
    \E r \in 1..Len(data) : \E j \in 1..Len(data[r]) :
        Abs(data[r][j]) * quantile.den
            > QuantileTimesDen(AbsData(data)[r], quantile) * factor

\* lines 18-19: q is one value per row (axis=1, keepdims), and data > q * factor
\* compares every sample with the value of its own row
trace_has_spikes(data, factor, quantile) ==
    \E r \in 1..Len(data) : \E j \in 1..Len(data[r]) :
        data[r][j] * quantile.den
            > QuantileTimesDen(AbsData(data)[r], quantile) * factor

InitDetect ==
    /\ fn = "trace_has_spikes"
    /\ \E rows \in Rows, cols \in 1..MaxCols :
           \E data \in [1..rows -> [1..cols -> Amplitudes]] :
               \E factor \in Factors, quantile \in Quantiles :
                   args = [data |-> data, factor |-> factor,
                           quantile |-> quantile]

Detect ==
    /\ pc = "call"
    /\ fn = "trace_has_spikes"
    /\ result' = [value |->
                    trace_has_spikes(args.data, args.factor, args.quantile)]
    /\ pc' = "returned"
    /\ UNCHANGED <<fn, args>>

----------------------------------------------------------------------------
(* rotate_stream_to_ZNE                                                    *)
(*                                                                         *)
(* stream.rotate("->ZNE", inventory) belongs to the waveform library.  It  *)
(* is modelled by what the wrapper can observe of it: it returns or raises *)
(* an exception of some class, and it has or has not rotated the stream in *)
(* place by then.  A stream is the sequence of its channel codes; the      *)
(* inventory is the set of channel codes it has orientation metadata for.  *)

\* Python's exception classes, each with its base class
BaseClass ==
    [Exception |-> "BaseException",
     KeyboardInterrupt |-> "BaseException",
     ValueError |-> "Exception",
     RuntimeError |-> "Exception",
     NotImplementedError |-> "RuntimeError",
     AttributeError |-> "Exception",
     ObsPyException |-> "Exception",
     LookupError |-> "Exception",
     KeyError |-> "LookupError"]

RECURSIVE IsSubclass(_, _)
IsSubclass(cls, base) ==
    \/ cls = base
    \/ cls \in DOMAIN BaseClass /\ IsSubclass(BaseClass[cls], base)

\* Faulty variant: the catch-all clause of line 87 left out.
mut_no_catch_all ==
    <<"ValueError", "NotImplementedError", "AttributeError", "ObsPyException">>

\* lines 79-87: the except clauses, in order
ExceptClauses ==
    <<"ValueError", "NotImplementedError", "AttributeError", "ObsPyException",
      "Exception">>

\* the try statement: an exception is handled by the first clause naming its
\* class or a base of it, and propagates when there is none
Caught(raised) ==
    \E i \in 1..Len(ExceptClauses) : IsSubclass(raised, ExceptClauses[i])

RotationStreams ==
    {<<<<"H", "H", "Z">>, <<"H", "H", "1">>, <<"H", "H", "2">>>>,
     <<<<"H", "H", "Z">>, <<"H", "H", "N">>, <<"H", "H", "E">>>>,
     <<<<"H", "H", "1">>, <<"H", "H", "2">>>>}

ChannelCodes ==
    UNION {{stream[k] : k \in 1..Len(stream)} : stream \in RotationStreams}

\* the channel codes of the traces that a rotation to ZNE has to turn
NeedsRotation(stream) ==
    {stream[k] : k \in {i \in 1..Len(stream) : stream[i][3] \in {"1", "2"}}}

\* the inventory has no orientation for a channel that has to be turned
LacksChannel(stream, inventory) ==
    \E ch \in NeedsRotation(stream) : ch \notin inventory

\* the stream after a rotation to ZNE
Rotated(stream) ==
    [k \in 1..Len(stream) |->
        [stream[k] EXCEPT ![3] = IF @ = "1" THEN "N"
                                 ELSE IF @ = "2" THEN "E" ELSE @]]

\* What stream.rotate does with a stream and an inventory.  Missing channel
\* metadata is found by the lookup, before any trace is touched, and raises
\* a plain Exception (line 88).
RotateOutcomes(stream, inventory) ==
    IF LacksChannel(stream, inventory)
    THEN {[raised |-> "Exception", rotated |-> FALSE]}
    ELSE {[raised |-> "none", rotated |-> TRUE]}
         \cup [raised : DOMAIN BaseClass, rotated : BOOLEAN]

\* lines 77-89
rotate_stream_to_ZNE(stream, outcome) ==
    [stream |-> IF outcome.rotated THEN Rotated(stream) ELSE stream,
     propagated |-> IF outcome.raised = "none" \/ Caught(outcome.raised)
                    THEN "none"
                    ELSE outcome.raised]

InitRotate ==
    /\ fn = "rotate_stream_to_ZNE"
    /\ \E stream \in RotationStreams, inventory \in SUBSET ChannelCodes :
           \E outcome \in RotateOutcomes(stream, inventory) :
               args = [stream |-> stream, inventory |-> inventory,
                       outcome |-> outcome]

Rotate ==
    /\ pc = "call"
    /\ fn = "rotate_stream_to_ZNE"
    /\ result' = rotate_stream_to_ZNE(args.stream, args.outcome)
    /\ pc' = IF result'.propagated = "none" THEN "returned" ELSE "raised"
    /\ UNCHANGED <<fn, args>>

----------------------------------------------------------------------------
Init ==
    /\ pc = "call"
    /\ result = [value |-> <<>>]
    /\ \/ InitNormalize
       \/ InitAssemble
       \/ InitDetect
       \/ InitRotate

Next ==
    \/ Normalize
    \/ Assemble
    \/ Detect
    \/ Rotate

Spec == Init /\ [][Next]_vars

----------------------------------------------------------------------------
(* Properties of stream_to_array                                           *)

Assembled == fn = "stream_to_array" /\ pc = "returned"

\* the indices of the traces of the stream whose channel code is two
\* characters followed by component c
Matching(stream, c) ==
    {k \in 1..Len(stream) :
        Len(stream[k].channel) = 3 /\ stream[k].channel[3] = c}

Covers(copy, p) == copy.start_sample < p /\ p <= copy.start_sample + copy.l

\* the positions of row c_idx that at least one trace was written to
Written(c_idx) ==
    {p \in 1..result.samples :
        \E i \in 1..Len(result.copies[c_idx]) :
            Covers(result.copies[c_idx][i], p)}

RECURSIVE SumOver(_, _)
SumOver(f, S) ==
    IF S = {} THEN 0
    ELSE LET x == CHOOSE y \in S : TRUE IN f[x] + SumOver(f, S \ {x})

AlignedInput ==
    /\ \A c_idx \in 1..Len(args.component_order) :
           Matching(args.stream, args.component_order[c_idx]) # {}
    /\ \A k \in 1..Len(args.stream) :
           /\ args.stream[k].starttime = args.stream[1].starttime
           /\ args.stream[k].npts = args.stream[1].npts

\* C2: every requested component has a trace and all traces share start time
\* T, sample count n and rate: the call returns start time T, an array of
\* len(component_order) rows of n samples, and completeness exactly 1.
C2_AlignedGivesFullArray ==
    (Assembled /\ AlignedInput) =>
        /\ result.starttime = args.stream[1].starttime
        /\ Len(result.filled) = Len(args.component_order)
        /\ \A c_idx \in 1..Len(result.filled) :
               Len(result.filled[c_idx]) = args.stream[1].npts
        /\ result.completeness.num = result.completeness.den

MissingComponents ==
    {c_idx \in 1..Len(args.component_order) :
        Matching(args.stream, args.component_order[c_idx]) = {}}

\* C3: with k of the n requested components matched by no trace, the
\* completeness is at most (n - k) / n.
C3_MissingComponentCountsZero ==
    Assembled =>
        LET n == Len(args.component_order)
            k == Cardinality(MissingComponents)
        IN  result.completeness.num * n <= (n - k) * result.completeness.den

\* C3 witness: two components requested, one without any trace, the other
\* complete: the completeness is exactly one half.
C3_Witness ==
    /\ Assembled
    /\ Len(args.component_order) = 2
    /\ Cardinality(MissingComponents) = 1
    /\ 2 * result.completeness.num = result.completeness.den

\* the rows that exactly two traces of different lengths were written to
TwoUnequal(c_idx) ==
    /\ Len(result.copies[c_idx]) = 2
    /\ result.copies[c_idx][1].trace.npts # result.copies[c_idx][2].trace.npts

Longer(c_idx) ==
    LET w == result.copies[c_idx]
    IN  IF w[1].trace.npts > w[2].trace.npts THEN w[1] ELSE w[2]

\* C4: when two traces of different lengths match one component, every output
\* position both were written to holds the longer trace's sample (in the
\* array before the mean is subtracted), whatever their order in the stream.
C4_LongerTraceWins ==
    Assembled =>
        \A c_idx \in 1..Len(args.component_order) :
            TwoUnequal(c_idx) =>
                \A p \in 1..result.samples :
                    (/\ Covers(result.copies[c_idx][1], p)
                     /\ Covers(result.copies[c_idx][2], p)) =>
                        result.filled[c_idx][p] =
                            Longer(c_idx).trace.data[
                                p - Longer(c_idx).start_sample]

\* C4 witness: the longer of two overlapping traces comes first in the stream
\* and its sample is in the output at a position both cover.
C4_Witness ==
    /\ Assembled
    /\ \E c_idx \in 1..Len(args.component_order) :
           /\ TwoUnequal(c_idx)
           /\ LET m == Matching(args.stream, args.component_order[c_idx])
                  first == CHOOSE k \in m : \A j \in m : k <= j
              IN  args.stream[first] = Longer(c_idx).trace
           /\ \E p \in 1..result.samples :
                  /\ Covers(result.copies[c_idx][1], p)
                  /\ Covers(result.copies[c_idx][2], p)
                  /\ result.filled[c_idx][p] =
                         Longer(c_idx).trace.data[
                             p - Longer(c_idx).start_sample]

\* C7: the completeness is the fraction of output samples that contain data:
\* the mean over the rows of (positions written by some trace) / samples.
C7_CompletenessIsWrittenFraction ==
    Assembled =>
        result.completeness.num =
            SumOver([c_idx \in 1..Len(args.component_order) |->
                        Cardinality(Written(c_idx))],
                    1..Len(args.component_order))

\* C8: the completeness lies in [0, 1].
C8_CompletenessInUnitInterval ==
    Assembled =>
        /\ result.completeness.den > 0
        /\ 0 <= result.completeness.num
        /\ result.completeness.num <= result.completeness.den

\* C8 witness: the copied samples of one row add up to more than the row
\* holds (overlapping traces), while another row is incomplete.
C8_Witness ==
    /\ Assembled
    /\ \E c_idx \in 1..Len(args.component_order) :
           SumSeq([i \in 1..Len(result.copies[c_idx]) |->
                      result.copies[c_idx][i].l]) > result.samples
    /\ 0 < result.completeness.num
    /\ result.completeness.num < result.completeness.den

WarningFor(c_idx, time) ==
    LET m == Matching(args.stream, args.component_order[c_idx])
        first == CHOOSE k \in m : \A j \in m : k <= j
    IN  IF Cardinality(m) > 1
        THEN result.warnings[c_idx] =
                 <<[id |-> <<"NW", "STA", "", args.stream[first].channel>>,
                    starttime |-> time]>>
        ELSE result.warnings[c_idx] = <<>>

\* C9 as stated: a component is warned about exactly when more than one trace
\* matches it, and the warning names the first matched trace's identifier and
\* the earliest start time of the stream, the one the call returns.
C9_WarningNamesEarliestStart ==
    Assembled =>
        \A c_idx \in 1..Len(args.component_order) :
            WarningFor(c_idx, result.starttime)

\* C9 as amended: a component is warned about exactly when more than one
\* trace matches it, and the warning names the first matched trace's
\* identifier and the start time of the first trace of the stream.
C9_WarningNamesFirstTraceStart ==
    Assembled =>
        \A c_idx \in 1..Len(args.component_order) :
            WarningFor(c_idx, args.stream[1].starttime)

\* C9 witness: a warning is logged whose first matched trace is not the
\* shortest one, and the first trace of the stream is not the earliest.
C9_Witness ==
    /\ Assembled
    /\ args.stream[1].starttime # result.starttime
    /\ \E c_idx \in 1..Len(args.component_order) :
           LET m == Matching(args.stream, args.component_order[c_idx])
               first == CHOOSE k \in m : \A j \in m : k <= j
           IN  /\ Len(result.warnings[c_idx]) = 1
               /\ \E j \in m : /\ args.stream[j].npts < args.stream[first].npts
                               /\ args.stream[j].channel
                                      # args.stream[first].channel

\* C10: every trace is copied in full and inside its row: 0 <= offset, the
\* copied length is the trace's sample count, offset + length <= samples.
C10_TracesCopiedInFull ==
    Assembled =>
        \A c_idx \in 1..Len(args.component_order) :
            \A i \in 1..Len(result.copies[c_idx]) :
                LET w == result.copies[c_idx][i]
                IN  /\ 0 <= w.start_sample
                    /\ w.l = w.trace.npts
                    /\ w.start_sample + w.l <= result.samples

----------------------------------------------------------------------------
(* Properties of waveform_id_to_network_station_location                   *)

Normalized ==
    fn = "waveform_id_to_network_station_location" /\ pc = "returned"

Dots(s) == {i \in 1..Len(s) : s[i] = "."}

\* C1: an id with exactly three dots (four parts) is returned cut before its
\* last dot, that is as its first three parts joined by dots; every other
\* string, the empty one included, is returned unchanged; and the call always
\* returns.
C1_NormalizerDropsChannel ==
    /\ (fn = "waveform_id_to_network_station_location" /\ pc = "call") =>
           ENABLED Normalize
    /\ fn = "waveform_id_to_network_station_location" => pc # "raised"
    /\ Normalized =>
           LET s == args.waveform_id
           IN  IF Cardinality(Dots(s)) = 3
               THEN LET last == CHOOSE i \in Dots(s) : \A j \in Dots(s) : j <= i
                    IN  /\ result.value = SubSeq(s, 1, last - 1)
                        /\ Cardinality(Dots(result.value)) = 2
               ELSE result.value = s

\* C1 witness: a four-part id with non-empty parts lost its channel.
C1_Witness ==
    /\ Normalized
    /\ Cardinality(Dots(args.waveform_id)) = 3
    /\ args.waveform_id[1] = "N"
    /\ Len(result.value) = Len(args.waveform_id) - 1

----------------------------------------------------------------------------
(* Properties of rotate_stream_to_ZNE                                      *)

RotateCalled == fn = "rotate_stream_to_ZNE" /\ pc # "call"

\* the failures the rotation raises: ValueError, NotImplementedError,
\* AttributeError, the library's ObsPyException, a plain Exception, or any
\* other class derived from Exception
IsFailure(raised) == raised # "none" /\ IsSubclass(raised, "Exception")

----------------------------------------------------------------------------
(* Properties of trace_has_spikes                                          *)

Detected == fn = "trace_has_spikes" /\ pc = "returned"

\* the k-th smallest value of a row (k from 0), found by counting
OrderStatistic(row, k) ==
    CHOOSE v \in {row[i] : i \in 1..Len(row)} :
        /\ Cardinality({i \in 1..Len(row) : row[i] < v}) <= k
        /\ k < Cardinality({i \in 1..Len(row) : row[i] <= v})

\* quantile.den times the quantile of the absolute values of a row
AbsQuantileTimesDen(row, quantile) ==
    LET a == [i \in 1..Len(row) |-> IF row[i] < 0 THEN -row[i] ELSE row[i]]
        lo == ((Len(row) - 1) * quantile.num) \div quantile.den
        rest == (Len(row) - 1) * quantile.num - lo * quantile.den
    IN  IF rest = 0
        THEN quantile.den * OrderStatistic(a, lo)
        ELSE (quantile.den - rest) * OrderStatistic(a, lo)
                 + rest * OrderStatistic(a, lo + 1)

Exceeds(r, j) ==
    args.data[r][j] * args.quantile.den
        > args.factor * AbsQuantileTimesDen(args.data[r], args.quantile)

\* C6: the result is true exactly when some sample's signed value is strictly
\* greater than factor times the quantile of the absolute values of its own
\* row.
C6_SpikesIffSampleExceedsRowBound ==
    Detected =>
        (result.value <=>
            \E r \in 1..Len(args.data) : \E j \in 1..Len(args.data[r]) :
                Exceeds(r, j))

\* C6 witness: a spike is reported in a two-row array for a sample above the
\* bound of its own row which is positive, while a sample of larger magnitude
\* but negative sign is in the array, and the other row has no spike.
C6_Witness ==
    /\ Detected
    /\ result.value
    /\ Len(args.data) = 2
    /\ \E r \in 1..2 :
           /\ \E j \in 1..Len(args.data[r]) :
                  /\ Exceeds(r, j)
                  /\ AbsQuantileTimesDen(args.data[r], args.quantile) > 0
           /\ \A j \in 1..Len(args.data[3 - r]) : ~Exceeds(3 - r, j)
    /\ \E r \in 1..2 : \E j \in 1..Len(args.data[r]) : args.data[r][j] = -2

\* C6, second half: an array without a sample above the bound of its row is
\* reported clean.
C6_NoSpikeWitness ==
    /\ Detected
    /\ ~result.value
    /\ \E r \in 1..Len(args.data) : \E j \in 1..Len(args.data[r]) :
           args.data[r][j] = -2

=============================================================================
